---- MODULE Spec2Model ----
(***************************************************************************)
(* IcePort (src/projects/modules/ice/ice_port.cpp): the session registry   *)
(* (_user_mapping_table, _ice_port_info, _session_table), the STUN binding *)
(* state machine and the expiration timer, as a multi-threaded state       *)
(* machine.  A critical section guarded by one std::lock_guard is one      *)
(* step; every access the code makes outside a lock is a step of its own.  *)
(***************************************************************************)
EXTENDS Integers, Sequences, FiniteSets, TLC

\* ---- bounds of the model ----
MaxAdds == 2        \* AddSession calls (one IcePortInfo record each)
MaxOps == 4         \* handlers started
MaxActive == 2      \* handlers running at the same time
MaxLayers == 2      \* nesting of a received packet: TURN channel data around a payload

\* ---- values ----
ExpireAfter == 0    \* GetTimeout() in ticks of the clock: shorter than one tick
UfragSeq == <<"u1", "u2">>      \* the ufrags in use, in std::map key order
Ufrags == {UfragSeq[i] : i \in 1..Len(UfragSeq)}
NoUser == ""        \* a request without a usable USERNAME attribute
Addrs == {1, 2}
Sockets == {1, 2}
NoAddr == 0         \* ov::SocketAddress()
NullSocket == 0     \* nullptr
NoEntry == 0        \* map::end()
BadKey == 0         \* a MESSAGE-INTEGRITY computed under no session's password
NoThread == "none"

AppThreads == {"app"}
NetThreads == {"net1", "net2"}
TimerThreads == {"timer"}
Threads == AppThreads \cup NetThreads \cup TimerThreads

\* the socket a transport thread delivers from (callbacks of one socket are serialized)
SocketOf(t) == IF t = "net1" THEN 1 ELSE 2

\* ov::Socket::GetType: socket 1 is the UDP port, socket 2 a TCP (TURN) connection
SocketType(s) == IF s = 1 THEN "Udp" ELSE "Tcp"

\* _observers after the set-up calls of AddObserver, in registration order
Observers == <<"o1", "o2">>

\* IcePacketIdentifier::FindPacketType of a payload: TURN channel data, an
\* application packet (RTP_RTCP, DTLS), or a type the port discards (ZRTP,
\* UNKNOWN).  STUN is delivered to the binding handlers below.
PacketTypes == {"TURN_CHANNEL_DATA", "APPLICATION", "UNKNOWN"}

\* A received packet is the sequence of the types of its nested payloads,
\* outermost first; only channel data carries a payload, and a channel-data
\* message in the last place is one ChannelDataMessage::Load rejects.
Packets == UNION {{p \in [1..n -> PacketTypes] :
                      \A i \in 1..(n - 1) : p[i] = "TURN_CHANNEL_DATA"} : n \in 1..MaxLayers}

VARIABLES
    info,                 \* the IcePortInfo objects; info[r] has session id r
    user_mapping_table,   \* _user_mapping_table : ufrag -> record
    ice_port_info,        \* _ice_port_info : address -> record
    session_table,        \* _session_table : session id -> record
    user_mutex,           \* owner of _user_mapping_table_mutex
    info_mutex,           \* owner of _ice_port_info_mutex
    pc,                   \* position of each thread in its handler
    loc,                  \* locals of the handler each thread runs
    out,                  \* observer callbacks and SendTo calls of the running handler
    ops,                  \* handlers started
    aborted,              \* the process has died (failed assertion, null dereference)
    timer,                \* _timer is running (started by the constructor, stopped by Close)
    observing             \* the port is registered as observer of its physical ports

vars == <<info, user_mapping_table, ice_port_info, session_table, user_mutex,
          info_mutex, pc, loc, out, ops, aborted, timer, observing>>

Recs == 1..Len(info)

Loc0 == [op |-> "", rec |-> NoEntry, ufrag |-> NoUser, addr |-> NoAddr, sid |-> NoEntry,
         dl |-> <<>>, ret |-> FALSE, pkt |-> <<>>, decaps |-> 0, res |-> 0, tid |-> 0]

\* offer_sdp->GetIcePwd() of record r: every session has its own password
IcePwd(r) == r

\* StunMessage::CheckIntegrity: the HMAC verifies iff it was computed under that password
CheckIntegrity(key, pwd) == key = pwd

\* Time is kept relative to the clock: the expire_time field of a record holds
\* expire_time - system_clock::now(), and a tick of the clock lowers it by one
\* (Expired stands for every negative value).
Expired == 0 - 1

\* IcePortInfo::UpdateBindingTime: expire_time = now() + _expire_after_ms
UpdateBindingTime == ExpireAfter

\* IcePortInfo::IsExpired: now() > expire_time
IsExpired(r) == info[r].expire_time < 0

\* one observer callback / one SendTo, as recorded for the running handler
StateEv(r, st, locks) ==
    [kind |-> "state", sid |-> r, state |-> st, socket |-> NullSocket, addr |-> NoAddr, locks |-> locks]
SendEv(k, r, sock, a) ==
    [kind |-> k, sid |-> r, state |-> "", socket |-> sock, addr |-> a, locks |-> {}]
\* SendTo of a STUN message that carries transaction id tid
StunEv(k, r, sock, a, tid) ==
    [kind |-> k, sid |-> r, state |-> "", socket |-> sock, addr |-> a, locks |-> {}, tid |-> tid]
\* OnDataReceived of observer o with the session_info of record r
DataEv(o, r, locks) ==
    [kind |-> "OnDataReceived", sid |-> r, state |-> "", socket |-> NullSocket, addr |-> NoAddr,
     locks |-> locks, observer |-> o]

Init ==
    /\ info = <<>>
    /\ user_mapping_table = [u \in Ufrags |-> NoEntry]
    /\ ice_port_info = [a \in Addrs |-> NoEntry]
    /\ session_table = [s \in 1..MaxAdds |-> NoEntry]
    /\ user_mutex = NoThread
    /\ info_mutex = NoThread
    /\ pc = [t \in Threads |-> "idle"]
    /\ loc = [t \in Threads |-> Loc0]
    /\ out = [t \in Threads |-> <<>>]
    /\ ops = 0
    /\ aborted = FALSE
    /\ timer = TRUE
    /\ observing = TRUE

\* ---- helpers ----
\* A handler that has returned hands its result to the caller before any
\* thread goes on: the return touches nothing another thread reads.
NoneDone == \A o \in Threads : pc[o] # "done"
At(t, p) == pc[t] = p /\ ~aborted /\ NoneDone
\* a thread may start a handler
\* a handler starts on an idle thread; packets arrive only while the port observes
\* a physical port, and CheckTimedoutItem runs only while _timer runs
Idle(t) ==
    /\ At(t, "idle") /\ Cardinality({o \in Threads : pc[o] # "idle"}) < MaxActive
    /\ t \in NetThreads => observing
    /\ t \in TimerThreads => timer

\* the first of a set of ufrags in the iteration order of std::map
KeyIndex(u) == CHOOSE i \in 1..Len(UfragSeq) : UfragSeq[i] = u
FirstKey(S) == CHOOSE u \in S : \A v \in S : KeyIndex(u) <= KeyIndex(v)

\* std::map::erase(key) on _ice_port_info; the default address is never a key
EraseAddr(tbl, a) == IF a \in Addrs THEN [tbl EXCEPT ![a] = NoEntry] ELSE tbl

\* IcePort::SetIceState: info->state = state, then OnStateChanged on the observers
SetIceState(t, r, st, locks) ==
    /\ info' = [info EXCEPT ![r].state = st]
    /\ out' = [out EXCEPT ![t] = Append(@, StateEv(r, st, locks))]

\* return from the handler
Done(t, l, r) == 
    /\ pc' = [pc EXCEPT ![t] = "done"]
    /\ loc' = [loc EXCEPT ![t] = [l EXCEPT !.ret = r]]

Goto(t, p) == pc' = [pc EXCEPT ![t] = p]

\* ---- IcePort::AddSession ----
\* lines 250-279: the critical section on _user_mapping_table_mutex
AddSession_Insert(t, ufrag) ==
    /\ t \in AppThreads /\ Idle(t)
    /\ Len(info) < MaxAdds
    /\ ops < MaxOps
    /\ user_mutex = NoThread
    /\ \/ \* OV_ASSERT(false, "Duplicated ufrag") in a build with assertions
          /\ user_mapping_table[ufrag] # NoEntry
          /\ aborted' = TRUE /\ UNCHANGED <<timer, observing>>
          /\ UNCHANGED <<info, user_mapping_table, ice_port_info, session_table,
                         user_mutex, info_mutex, pc, loc, out, ops>>
       \/ \* the assertion compiled out, or no duplicate
          /\ info' = Append(info, [ufrag |-> ufrag, remote |-> NullSocket, address |-> NoAddr,
                                   state |-> "Closed", expire_time |-> UpdateBindingTime])
          /\ user_mapping_table' = [user_mapping_table EXCEPT ![ufrag] = Len(info) + 1]
          /\ Goto(t, "as_setstate")
          /\ loc' = [loc EXCEPT ![t] = [Loc0 EXCEPT !.op = "AddSession", !.ufrag = ufrag,
                                                    !.rec = Len(info) + 1]]
          /\ out' = [out EXCEPT ![t] = <<>>]
          /\ ops' = ops + 1
          /\ UNCHANGED <<ice_port_info, session_table, user_mutex, info_mutex, aborted, timer, observing>>

\* line 281: SetIceState(_user_mapping_table[local_ufrag], New), no lock held
AddSession_SetState(t) ==
    /\ At(t, "as_setstate")
    /\ LET r == user_mapping_table[loc[t].ufrag] IN
       IF r = NoEntry
       THEN \* operator[] yields a null shared_ptr, SetIceState dereferences it
            /\ aborted' = TRUE /\ UNCHANGED <<timer, observing>>
            /\ UNCHANGED <<info, pc, loc, out>>
       ELSE /\ SetIceState(t, r, "New", {})
            /\ Done(t, loc[t], TRUE)
            /\ UNCHANGED <<aborted, timer, observing>>
    /\ UNCHANGED <<user_mapping_table, ice_port_info, session_table, user_mutex, info_mutex, ops>>

\* ---- IcePort::RemoveSession ----
\* RemoveSession_Find, had it erased the session id and left the address entry
\* to a later critical section
Find_KeepAddress(t, sid) ==
    /\ t \in AppThreads /\ Idle(t)
    /\ ops < MaxOps
    /\ info_mutex = NoThread
    /\ ops' = ops + 1
    /\ out' = [out EXCEPT ![t] = <<>>]
    /\ IF session_table[sid] = NoEntry
       THEN /\ info_mutex' = t
            /\ Goto(t, "rs_scan")
            /\ loc' = [loc EXCEPT ![t] = [Loc0 EXCEPT !.op = "RemoveSession", !.sid = sid]]
            /\ UNCHANGED session_table
       ELSE LET r == session_table[sid] IN
            /\ session_table' = [session_table EXCEPT ![sid] = NoEntry]
            /\ Goto(t, "rs_eraseU")
            /\ loc' = [loc EXCEPT ![t] = [Loc0 EXCEPT !.op = "RemoveSession", !.sid = sid, !.rec = r]]
            /\ UNCHANGED info_mutex
    /\ UNCHANGED <<info, user_mapping_table, ice_port_info, user_mutex, aborted, timer, observing>>

\* lines 288-325: lock _ice_port_info_mutex, find the session id
RemoveSession_Find(t, sid) ==
    /\ t \in AppThreads /\ Idle(t)
    /\ ops < MaxOps
    /\ info_mutex = NoThread
    /\ ops' = ops + 1
    /\ out' = [out EXCEPT ![t] = <<>>]
    /\ IF session_table[sid] = NoEntry
       THEN \* not found: go on to scan _user_mapping_table, still holding the lock
            /\ info_mutex' = t
            /\ Goto(t, "rs_scan")
            /\ loc' = [loc EXCEPT ![t] = [Loc0 EXCEPT !.op = "RemoveSession", !.sid = sid]]
            /\ UNCHANGED <<session_table, ice_port_info>>
       ELSE LET r == session_table[sid] IN
            /\ session_table' = [session_table EXCEPT ![sid] = NoEntry]
            /\ ice_port_info' = EraseAddr(ice_port_info, info[r].address)
            /\ Goto(t, "rs_eraseU")
            /\ loc' = [loc EXCEPT ![t] = [Loc0 EXCEPT !.op = "RemoveSession", !.sid = sid, !.rec = r]]
            /\ UNCHANGED info_mutex
    /\ UNCHANGED <<info, user_mapping_table, user_mutex, aborted, timer, observing>>

\* lines 296-318: under both locks, erase the first entry whose record has this session id
RemoveSession_Scan(t) ==
    /\ At(t, "rs_scan")
    /\ user_mutex = NoThread
    /\ LET hit == {u \in Ufrags : user_mapping_table[u] # NoEntry /\ user_mapping_table[u] = loc[t].sid} IN
       IF hit # {}
       THEN /\ user_mapping_table' = [user_mapping_table EXCEPT ![FirstKey(hit)] = NoEntry]
            /\ Done(t, loc[t], TRUE)
       ELSE /\ UNCHANGED user_mapping_table
            /\ Done(t, loc[t], FALSE)
    /\ info_mutex' = NoThread
    /\ UNCHANGED <<info, ice_port_info, session_table, user_mutex, out, ops, aborted, timer, observing>>

\* lines 327-332: erase the ufrag of the record found in _session_table
RemoveSession_EraseUfrag(t) ==
    /\ At(t, "rs_eraseU")
    /\ user_mutex = NoThread
    /\ user_mapping_table' = [user_mapping_table EXCEPT ![info[loc[t].rec].ufrag] = NoEntry]
    /\ Done(t, loc[t], TRUE)
    /\ UNCHANGED <<info, ice_port_info, session_table, user_mutex, info_mutex, out, ops, aborted, timer, observing>>

\* ---- IcePort::ProcessBindingRequest ----
\* ProcessBindingRequest_Lookup, had it answered a request for an unknown ufrag
\* with an error response instead of dropping it
Lookup_AnswerUnknown(t, ufrag, addr, key, tid) ==
    /\ t \in NetThreads /\ Idle(t)
    /\ ops < MaxOps
    /\ ops' = ops + 1
    /\ LET l == [Loc0 EXCEPT !.op = "BindingRequest", !.ufrag = ufrag] IN
       IF ufrag = NoUser
       THEN Done(t, l, FALSE) /\ out' = [out EXCEPT ![t] = <<>>]
       ELSE /\ user_mutex = NoThread
            /\ LET r == user_mapping_table[ufrag] IN
               IF r = NoEntry
               THEN /\ Done(t, l, FALSE)
                    /\ out' = [out EXCEPT ![t] = <<StunEv("error", NoEntry, SocketOf(t), addr, tid)>>]
               ELSE /\ out' = [out EXCEPT ![t] = <<>>]
                    /\ IF CheckIntegrity(key, IcePwd(r))
                       THEN /\ loc' = [loc EXCEPT ![t] = [l EXCEPT !.rec = r, !.addr = addr,
                                                                  !.tid = tid]]
                            /\ Goto(t, "pbr_update")
                       ELSE /\ loc' = [loc EXCEPT ![t] = [l EXCEPT !.rec = r]]
                            /\ Goto(t, "pbr_failstate")
    /\ UNCHANGED <<info, user_mapping_table, ice_port_info, session_table, user_mutex,
                   info_mutex, aborted, timer, observing>>

\* lines 599-654 up to the integrity check: GetUfrags, the lookup under
\* _user_mapping_table_mutex, CheckIntegrity with the offer's password
ProcessBindingRequest_Lookup(t, ufrag, addr, key, tid) ==
    /\ t \in NetThreads /\ Idle(t)
    /\ ops < MaxOps
    /\ ops' = ops + 1
    /\ out' = [out EXCEPT ![t] = <<>>]
    /\ LET l == [Loc0 EXCEPT !.op = "BindingRequest", !.ufrag = ufrag] IN
       IF ufrag = NoUser
       THEN Done(t, l, FALSE)
       ELSE /\ user_mutex = NoThread
            /\ LET r == user_mapping_table[ufrag] IN
               IF r = NoEntry
               THEN Done(t, l, FALSE)
               ELSE IF CheckIntegrity(key, IcePwd(r))
                    THEN /\ loc' = [loc EXCEPT ![t] = [l EXCEPT !.rec = r, !.addr = addr,
                                                               !.tid = tid]]
                         /\ Goto(t, "pbr_update")
                    ELSE /\ loc' = [loc EXCEPT ![t] = [l EXCEPT !.rec = r]]
                         /\ Goto(t, "pbr_failstate")
    /\ UNCHANGED <<info, user_mapping_table, ice_port_info, session_table, user_mutex,
                   info_mutex, aborted, timer, observing>>

\* line 638: SetIceState(ice_port_info, Failed), no lock held
ProcessBindingRequest_FailState(t) ==
    /\ At(t, "pbr_failstate")
    /\ SetIceState(t, loc[t].rec, "Failed", {})
    /\ Goto(t, "pbr_failU")
    /\ UNCHANGED <<user_mapping_table, ice_port_info, session_table, user_mutex, info_mutex,
                   loc, ops, aborted, timer, observing>>

\* lines 640-644: _user_mapping_table.erase(local_ufrag)
ProcessBindingRequest_FailEraseUfrag(t) ==
    /\ At(t, "pbr_failU")
    /\ user_mutex = NoThread
    /\ user_mapping_table' = [user_mapping_table EXCEPT ![loc[t].ufrag] = NoEntry]
    /\ Goto(t, "pbr_failI")
    /\ UNCHANGED <<info, ice_port_info, session_table, user_mutex, info_mutex, loc, out,
                   ops, aborted, timer, observing>>

\* ProcessBindingRequest_FailEraseInfo, had it left the session id in _session_table
FailEraseInfo_KeepSession(t) ==
    /\ At(t, "pbr_failI")
    /\ info_mutex = NoThread
    /\ ice_port_info' = EraseAddr(ice_port_info, info[loc[t].rec].address)
    /\ Done(t, loc[t], FALSE)
    /\ UNCHANGED <<info, user_mapping_table, session_table, user_mutex, info_mutex, out, ops, aborted, timer, observing>>

\* lines 646-653: erase the record's address and session id, return false
ProcessBindingRequest_FailEraseInfo(t) ==
    /\ At(t, "pbr_failI")
    /\ info_mutex = NoThread
    /\ ice_port_info' = EraseAddr(ice_port_info, info[loc[t].rec].address)
    /\ session_table' = [session_table EXCEPT ![loc[t].rec] = NoEntry]
    /\ Done(t, loc[t], FALSE)
    /\ UNCHANGED <<info, user_mapping_table, user_mutex, info_mutex, out, ops, aborted, timer, observing>>

\* lines 656-658: UpdateBindingTime, then the test of the state
ProcessBindingRequest_Update(t) ==
    /\ At(t, "pbr_update")
    /\ info' = [info EXCEPT ![loc[t].rec].expire_time = UpdateBindingTime]
    /\ IF info[loc[t].rec].state = "New"
       THEN Goto(t, "pbr_setchecking")
       ELSE Goto(t, "sbr_send")
    /\ UNCHANGED <<user_mapping_table, ice_port_info, session_table, user_mutex, info_mutex,
                   loc, out, ops, aborted, timer, observing>>

\* line 661: SetIceState(ice_port_info, Checking)
ProcessBindingRequest_SetChecking(t) ==
    /\ At(t, "pbr_setchecking")
    /\ SetIceState(t, loc[t].rec, "Checking", {})
    /\ Goto(t, "pbr_remote")
    /\ UNCHANGED <<user_mapping_table, ice_port_info, session_table, user_mutex, info_mutex,
                   loc, ops, aborted, timer, observing>>

\* ProcessBindingRequest_SetRemote, had it stored the socket but not the address
SetRemote_WithoutAddress(t) ==
    /\ At(t, "pbr_remote")
    /\ info' = [info EXCEPT ![loc[t].rec].remote = SocketOf(t)]
    /\ Goto(t, "sbr_send")
    /\ UNCHANGED <<user_mapping_table, ice_port_info, session_table, user_mutex, info_mutex,
                   loc, out, ops, aborted, timer, observing>>

\* lines 662-663: ice_port_info->remote = remote; ice_port_info->address = address
ProcessBindingRequest_SetRemote(t) ==
    /\ At(t, "pbr_remote")
    /\ info' = [info EXCEPT ![loc[t].rec].remote = SocketOf(t), ![loc[t].rec].address = loc[t].addr]
    /\ Goto(t, "sbr_send")
    /\ UNCHANGED <<user_mapping_table, ice_port_info, session_table, user_mutex, info_mutex,
                   loc, out, ops, aborted, timer, observing>>

\* ---- IcePort::SendBindingResponse, IcePort::SendBindingRequest ----
\* SendBindingResponse, had it sent the server's binding request before the
\* response
SendBindingResponse_RequestFirst(t) ==
    /\ At(t, "sbr_send")
    /\ info_mutex = NoThread
    /\ LET r == loc[t].rec IN
       /\ out' = [out EXCEPT ![t] = @ \o <<SendEv("request", r, SocketOf(t), loc[t].addr),
                                           StunEv("response", r, SocketOf(t), loc[t].addr,
                                                  loc[t].tid)>>]
       /\ IF session_table[r] = NoEntry
          THEN /\ ice_port_info' = [ice_port_info EXCEPT ![loc[t].addr] = r]
               /\ session_table' = [session_table EXCEPT ![r] = r]
          ELSE UNCHANGED <<ice_port_info, session_table>>
    /\ Done(t, loc[t], TRUE)
    /\ UNCHANGED <<info, user_mapping_table, user_mutex, info_mutex, ops, aborted, timer, observing>>

\* lines 674-718: SendTo(address, response), the response carrying the transaction
\* id of the request (line 678); under _ice_port_info_mutex add the
\* client to both tables unless its session id is there; SendBindingRequest
\* (lines 721-788): SendTo(address, request); return true
SendBindingResponse(t) ==
    /\ At(t, "sbr_send")
    /\ info_mutex = NoThread
    /\ LET r == loc[t].rec IN
       /\ out' = [out EXCEPT ![t] = @ \o <<StunEv("response", r, SocketOf(t), loc[t].addr,
                                                  loc[t].tid),
                                           SendEv("request", r, SocketOf(t), loc[t].addr)>>]
       /\ IF session_table[r] = NoEntry
          THEN /\ ice_port_info' = [ice_port_info EXCEPT ![loc[t].addr] = r]
               /\ session_table' = [session_table EXCEPT ![r] = r]
          ELSE UNCHANGED <<ice_port_info, session_table>>
    /\ Done(t, loc[t], TRUE)
    /\ UNCHANGED <<info, user_mapping_table, user_mutex, info_mutex, ops, aborted, timer, observing>>

\* ---- IcePort::ProcessBindingResponse ----
\* ProcessBindingResponse_Lookup, had it treated a failed integrity check as
\* ProcessBindingRequest does: the session set Failed and evicted
Lookup_EvictOnBadResponse(t, addr, key) ==
    /\ t \in NetThreads /\ Idle(t)
    /\ ops < MaxOps
    /\ info_mutex = NoThread
    /\ ops' = ops + 1
    /\ LET l == [Loc0 EXCEPT !.op = "BindingResponse"]
           r == ice_port_info[addr] IN
       IF r = NoEntry
       THEN Done(t, l, FALSE) /\ out' = [out EXCEPT ![t] = <<>>]
            /\ UNCHANGED <<info, ice_port_info, session_table>>
       ELSE IF ~CheckIntegrity(key, IcePwd(r))
            THEN /\ Done(t, [l EXCEPT !.rec = r], FALSE)
                 /\ info' = [info EXCEPT ![r].state = "Failed"]
                 /\ out' = [out EXCEPT ![t] = <<StateEv(r, "Failed", {})>>]
                 /\ ice_port_info' = [ice_port_info EXCEPT ![addr] = NoEntry]
                 /\ session_table' = [session_table EXCEPT ![r] = NoEntry]
            ELSE /\ out' = [out EXCEPT ![t] = <<>>]
                 /\ UNCHANGED <<info, ice_port_info, session_table>>
                 /\ IF info[r].state # "Connected"
                    THEN /\ loc' = [loc EXCEPT ![t] = [l EXCEPT !.rec = r]]
                         /\ Goto(t, "resp_set")
                    ELSE Done(t, [l EXCEPT !.rec = r], TRUE)
    /\ UNCHANGED <<user_mapping_table, user_mutex, info_mutex, aborted, timer, observing>>

\* lines 794-824: the lookup by address under _ice_port_info_mutex, CheckIntegrity
\* with the offer's password, the test of the state
ProcessBindingResponse_Lookup(t, addr, key) ==
    /\ t \in NetThreads /\ Idle(t)
    /\ ops < MaxOps
    /\ info_mutex = NoThread
    /\ ops' = ops + 1
    /\ out' = [out EXCEPT ![t] = <<>>]
    /\ LET l == [Loc0 EXCEPT !.op = "BindingResponse"]
           r == ice_port_info[addr] IN
       IF r = NoEntry
       THEN Done(t, l, FALSE)
       ELSE IF ~CheckIntegrity(key, IcePwd(r))
            THEN Done(t, [l EXCEPT !.rec = r], FALSE)
            ELSE IF info[r].state # "Connected"
                 THEN /\ loc' = [loc EXCEPT ![t] = [l EXCEPT !.rec = r]]
                      /\ Goto(t, "resp_set")
                 ELSE Done(t, [l EXCEPT !.rec = r], TRUE)
    /\ UNCHANGED <<info, user_mapping_table, ice_port_info, session_table, user_mutex,
                   info_mutex, aborted, timer, observing>>

\* line 827: SetIceState(ice_port_info, Connected), return true
ProcessBindingResponse_SetConnected(t) ==
    /\ At(t, "resp_set")
    /\ SetIceState(t, loc[t].rec, "Connected", {})
    /\ Done(t, loc[t], TRUE)
    /\ UNCHANGED <<user_mapping_table, ice_port_info, session_table, user_mutex, info_mutex,
                   ops, aborted, timer, observing>>

\* ---- IcePort::CheckTimedoutItem ----
\* the expired entries of _user_mapping_table, in iteration order
ExpiredKeys == SelectSeq(UfragSeq, LAMBDA u : user_mapping_table[u] # NoEntry
                                              /\ IsExpired(user_mapping_table[u]))

\* CheckTimedoutItem_Collect, had it kept _user_mapping_table_mutex for the
\* second critical section (the two lock scopes nested, ufrag lock first)
Collect_KeepUfragLock(t) ==
    /\ t \in TimerThreads /\ Idle(t)
    /\ ops < MaxOps
    /\ user_mutex = NoThread
    /\ ops' = ops + 1
    /\ LET keys == ExpiredKeys
           dl == [i \in 1..Len(keys) |-> user_mapping_table[keys[i]]]
           gone == {dl[i] : i \in 1..Len(dl)} IN
       /\ info' = [r \in 1..Len(info) |->
                      IF r \in gone THEN [info[r] EXCEPT !.state = "Disconnected"] ELSE info[r]]
       /\ out' = [out EXCEPT ![t] =
                      [i \in 1..Len(dl) |-> StateEv(dl[i], "Disconnected", {"user_mapping_table_mutex"})]]
       /\ user_mapping_table' = [u \in Ufrags |->
                      IF user_mapping_table[u] \in gone THEN NoEntry ELSE user_mapping_table[u]]
       /\ loc' = [loc EXCEPT ![t] = [Loc0 EXCEPT !.op = "CheckTimedoutItem", !.dl = dl, !.ret = TRUE]]
       /\ Goto(t, IF dl = <<>> THEN "done" ELSE "ct_erase")
    /\ user_mutex' = t
    /\ UNCHANGED <<ice_port_info, session_table, info_mutex, aborted, timer, observing>>

\* lines 560-580: under _user_mapping_table_mutex, every expired entry is set
\* Disconnected (observers called with the lock held), collected and erased
CheckTimedoutItem_Scan(t) ==
    /\ t \in TimerThreads /\ Idle(t)
    /\ user_mutex = NoThread
    /\ LET keys == ExpiredKeys
           dl == [i \in 1..Len(keys) |-> user_mapping_table[keys[i]]]
           gone == {dl[i] : i \in 1..Len(dl)} IN
       /\ info' = [r \in 1..Len(info) |->
                      IF r \in gone THEN [info[r] EXCEPT !.state = "Disconnected"] ELSE info[r]]
       /\ out' = [out EXCEPT ![t] =
                      [i \in 1..Len(dl) |-> StateEv(dl[i], "Disconnected", {"user_mapping_table_mutex"})]]
       /\ user_mapping_table' = [u \in Ufrags |->
                      IF user_mapping_table[u] \in gone THEN NoEntry ELSE user_mapping_table[u]]
       /\ loc' = [loc EXCEPT ![t] = [Loc0 EXCEPT !.op = "CheckTimedoutItem", !.dl = dl, !.ret = TRUE]]
       \* with an empty delete_list the second critical section does nothing
       /\ Goto(t, IF dl = <<>> THEN "done" ELSE "ct_erase")
    /\ UNCHANGED <<ice_port_info, session_table, user_mutex, info_mutex, aborted, timer, observing>>

\* one of the handlers the model counts
CheckTimedoutItem_Collect(t) ==
    /\ ops < MaxOps
    /\ ops' = ops + 1
    /\ CheckTimedoutItem_Scan(t)

\* lines 24-33: the timer repeats the callback every 1000 ms for as long as the
\* port lives, whatever else has run
CheckTimedoutItem_Periodic(t) ==
    /\ UNCHANGED ops
    /\ CheckTimedoutItem_Scan(t)

\* _session_table / _ice_port_info after erasing the records of a delete_list in order
RECURSIVE EraseDeleted(_, _)
EraseDeleted(tables, dl) ==
    IF dl = <<>> THEN tables
    ELSE EraseDeleted([st |-> [tables.st EXCEPT ![Head(dl)] = NoEntry],
                       ipi |-> EraseAddr(tables.ipi, info[Head(dl)].address)], Tail(dl))

\* lines 582-590: under _ice_port_info_mutex, erase every collected record by
\* its session id and by its address
CheckTimedoutItem_Erase(t) ==
    /\ At(t, "ct_erase")
    /\ info_mutex = NoThread
    /\ LET res == EraseDeleted([st |-> session_table, ipi |-> ice_port_info], loc[t].dl) IN
       /\ session_table' = res.st
       /\ ice_port_info' = res.ipi
    /\ Done(t, loc[t], TRUE)
    /\ UNCHANGED <<info, user_mapping_table, user_mutex, info_mutex, out, ops, aborted, timer, observing>>

\* ---- IcePort::GenerateUfrag ----
\* lines 184-200: under _user_mapping_table_mutex, draw random strings until one
\* is not a key of the table; the table is not changed
GenerateUfrag(t) ==
    /\ t \in AppThreads /\ Idle(t)
    /\ ops < MaxOps
    /\ user_mutex = NoThread
    /\ ops' = ops + 1
    /\ out' = [out EXCEPT ![t] = <<>>]
    /\ Done(t, [Loc0 EXCEPT !.op = "GenerateUfrag"], TRUE)
    /\ UNCHANGED <<info, user_mapping_table, ice_port_info, session_table, user_mutex,
                   info_mutex, aborted, timer, observing>>

\* ---- IcePort::Close ----
\* lines 160-182: RemoveObserver(this) and DeletePort on each physical port, until
\* one of them fails (then the port may still be registered); _ice_candidate_list
\* is cleared and _timer stopped in either case.  _observers and the three tables
\* are not touched.  res is the value returned, still whether the port is still
\* registered on some physical port afterwards
Close(t, res, still) ==
    /\ t \in AppThreads /\ Idle(t)
    /\ ops < MaxOps
    /\ res => ~still
    /\ still => observing
    /\ ops' = ops + 1
    /\ observing' = still
    /\ timer' = FALSE
    /\ out' = [out EXCEPT ![t] = <<>>]
    /\ Done(t, [Loc0 EXCEPT !.op = "Close"], res)
    /\ UNCHANGED <<info, user_mapping_table, ice_port_info, session_table, user_mutex,
                   info_mutex, aborted>>

\* ---- IcePort::Send ----
\* lines 357-369: the lookup of the session id under _ice_port_info_mutex
Send_Lookup(t, sid) ==
    /\ t \in AppThreads /\ Idle(t)
    /\ ops < MaxOps
    /\ info_mutex = NoThread
    /\ ops' = ops + 1
    /\ out' = [out EXCEPT ![t] = <<>>]
    /\ LET l == [Loc0 EXCEPT !.op = "Send", !.sid = sid] IN
       IF session_table[sid] = NoEntry
       THEN Done(t, l, FALSE)
       ELSE /\ loc' = [loc EXCEPT ![t] = [l EXCEPT !.rec = session_table[sid]]]
            /\ Goto(t, "send_sendto")
    /\ UNCHANGED <<info, user_mapping_table, ice_port_info, session_table, user_mutex,
                   info_mutex, aborted, timer, observing>>

\* Send_SendTo, had it returned true whatever SendTo reported
SendTo_IgnoreResult(t, res) ==
    /\ At(t, "send_sendto")
    /\ LET r == loc[t].rec IN
       IF info[r].remote = NullSocket
       THEN aborted' = TRUE /\ UNCHANGED <<timer, observing>> /\ UNCHANGED <<pc, loc, out>>
       ELSE /\ out' = [out EXCEPT ![t] = Append(@, SendEv("payload", r, info[r].remote, info[r].address))]
            /\ Done(t, [loc[t] EXCEPT !.res = res], TRUE)
            /\ UNCHANGED <<aborted, timer, observing>>
    /\ UNCHANGED <<info, user_mapping_table, ice_port_info, session_table, user_mutex,
                   info_mutex, ops>>

\* lines 371-380: outside the lock, remote->GetType() (the TCP branch is empty)
\* and remote->SendTo(address, data) with the caller's data; res is what SendTo returns
Send_SendTo(t, res) ==
    /\ At(t, "send_sendto")
    /\ LET r == loc[t].rec IN
       IF info[r].remote = NullSocket
       THEN \* ice_port_info->remote is a null shared_ptr
            aborted' = TRUE /\ UNCHANGED <<timer, observing>> /\ UNCHANGED <<pc, loc, out>>
       ELSE /\ out' = [out EXCEPT ![t] = Append(@, SendEv("payload", r, info[r].remote, info[r].address))]
            /\ Done(t, [loc[t] EXCEPT !.res = res], res >= 0)
            /\ UNCHANGED <<aborted, timer, observing>>
    /\ UNCHANGED <<info, user_mapping_table, ice_port_info, session_table, user_mutex,
                   info_mutex, ops>>

\* ---- IcePort::OnDataReceived / ProcessPacket ----
\* lines 441-460: the switch on the packet type
ProcessPacket(t, l) ==
    IF l.pkt[1] = "TURN_CHANNEL_DATA"
    THEN loc' = [loc EXCEPT ![t] = l] /\ Goto(t, "cd_load")
    ELSE IF l.pkt[1] = "APPLICATION"
         THEN loc' = [loc EXCEPT ![t] = l] /\ Goto(t, "app_lookup")
         ELSE Done(t, l, FALSE)

\* lines 408-439: a datagram or a demultiplexed TCP frame is classified and dispatched
OnDataReceived(t, pkt, addr) ==
    /\ t \in NetThreads /\ Idle(t)
    /\ ops < MaxOps
    /\ ops' = ops + 1
    /\ out' = [out EXCEPT ![t] = <<>>]
    /\ ProcessPacket(t, [Loc0 EXCEPT !.op = "Packet", !.pkt = pkt, !.addr = addr])
    /\ UNCHANGED <<info, user_mapping_table, ice_port_info, session_table, user_mutex,
                   info_mutex, aborted, timer, observing>>

\* lines 489-505: load the channel-data message, classify its payload and
\* hand it to ProcessPacket again; decaps counts the entries into this function
ProcessChannelDataPacket(t) ==
    /\ At(t, "cd_load")
    /\ LET l == [loc[t] EXCEPT !.decaps = @ + 1] IN
       IF Len(l.pkt) = 1
       THEN Done(t, l, FALSE)
       ELSE ProcessPacket(t, [l EXCEPT !.pkt = Tail(@)])
    /\ UNCHANGED <<info, user_mapping_table, ice_port_info, session_table, user_mutex,
                   info_mutex, out, ops, aborted, timer, observing>>

\* ProcessApplicationPacket, had it called the observers in reverse order
ApplicationPacket_Reversed(t) ==
    /\ At(t, "app_lookup")
    /\ info_mutex = NoThread
    /\ LET r == ice_port_info[loc[t].addr]
           n == Len(Observers) IN
       IF r = NoEntry
       THEN Done(t, loc[t], FALSE) /\ UNCHANGED out
       ELSE /\ out' = [out EXCEPT ![t] = @ \o [i \in 1..n |-> DataEv(Observers[n + 1 - i], r, {})]]
            /\ Done(t, [loc[t] EXCEPT !.rec = r], TRUE)
    /\ UNCHANGED <<info, user_mapping_table, ice_port_info, session_table, user_mutex,
                   info_mutex, ops, aborted, timer, observing>>

\* lines 462-487: the lookup by address under _ice_port_info_mutex, then, the
\* lock released, OnDataReceived of every observer with the record's session_info
ProcessApplicationPacket(t) ==
    /\ At(t, "app_lookup")
    /\ info_mutex = NoThread
    /\ LET r == ice_port_info[loc[t].addr] IN
       IF r = NoEntry
       THEN Done(t, loc[t], FALSE) /\ UNCHANGED out
       ELSE /\ out' = [out EXCEPT ![t] = @ \o [i \in 1..Len(Observers) |-> DataEv(Observers[i], r, {})]]
            /\ Done(t, [loc[t] EXCEPT !.rec = r], TRUE)
    /\ UNCHANGED <<info, user_mapping_table, ice_port_info, session_table, user_mutex,
                   info_mutex, ops, aborted, timer, observing>>

\* ---- environment ----
\* system_clock advances
Tick ==
    /\ ~aborted /\ NoneDone
    /\ \E r \in Recs : ~IsExpired(r)
    /\ info' = [r \in 1..Len(info) |->
                   [info[r] EXCEPT !.expire_time = IF @ - 1 < 0 THEN Expired ELSE @ - 1]]
    /\ UNCHANGED << user_mapping_table, ice_port_info, session_table, user_mutex,
                   info_mutex, pc, loc, out, ops, aborted, timer, observing>>

\* a record some table or some other thread's locals still point to
\* (the use count of its shared_ptr is positive)
Referenced(r, t) ==
    \/ \E u \in Ufrags : user_mapping_table[u] = r
    \/ \E a \in Addrs : ice_port_info[a] = r
    \/ session_table[r] = r
    \/ \E o \in Threads \ {t} : loc[o].rec = r \/ \E i \in 1..Len(loc[o].dl) : loc[o].dl[i] = r

\* a record whose last shared_ptr is gone
Freed == [ufrag |-> NoUser, remote |-> NullSocket, address |-> NoAddr, state |-> "Freed",
          expire_time |-> Expired]

\* the handler has returned to its caller: its locals go out of scope, and the
\* records nothing points to any more are destroyed
Return(t) ==
    /\ pc[t] = "done" /\ ~aborted
    /\ pc' = [pc EXCEPT ![t] = "idle"]
    /\ loc' = [loc EXCEPT ![t] = Loc0]
    /\ out' = [out EXCEPT ![t] = <<>>]
    /\ info' = [r \in 1..Len(info) |-> IF Referenced(r, t) THEN info[r] ELSE Freed]
    /\ UNCHANGED << user_mapping_table, ice_port_info, session_table, user_mutex,
                   info_mutex, ops, aborted, timer, observing>>

\* what ov::Socket::SendTo returns: the bytes sent, or a negative value
SendToResults == {0 - 1, 1}

\* the transaction ids a binding request can carry
TransactionIds == {1, 2}

\* the keys a binding request or response can be signed with
Keys == {BadKey} \cup {IcePwd(r) : r \in Recs}

\* one step of thread t in a handler of the session registry
RegistryStep(t) ==
    \/ \E u \in Ufrags : AddSession_Insert(t, u)
    \/ AddSession_SetState(t)
    \/ \E sid \in Recs : RemoveSession_Find(t, sid)
    \/ RemoveSession_Scan(t)
    \/ RemoveSession_EraseUfrag(t)
    \/ \E u \in Ufrags, a \in Addrs, k \in Keys, tid \in TransactionIds :
          ProcessBindingRequest_Lookup(t, u, a, k, tid)
    \/ ProcessBindingRequest_FailState(t)
    \/ ProcessBindingRequest_FailEraseUfrag(t)
    \/ ProcessBindingRequest_FailEraseInfo(t)
    \/ ProcessBindingRequest_Update(t)
    \/ ProcessBindingRequest_SetChecking(t)
    \/ ProcessBindingRequest_SetRemote(t)
    \/ SendBindingResponse(t)
    \/ \E a \in Addrs, k \in Keys : ProcessBindingResponse_Lookup(t, a, k)
    \/ ProcessBindingResponse_SetConnected(t)
    \/ CheckTimedoutItem_Collect(t)
    \/ CheckTimedoutItem_Erase(t)
    \/ Return(t)

\* one step of thread t in a handler that reads the registry
IoStep(t) ==
    \/ GenerateUfrag(t)
    \/ \E res \in BOOLEAN, still \in BOOLEAN : Close(t, res, still)
    \/ \E sid \in 1..MaxAdds : Send_Lookup(t, sid)
    \/ \E res \in SendToResults : Send_SendTo(t, res)
    \/ \E pkt \in Packets, a \in Addrs : OnDataReceived(t, pkt, a)
    \/ ProcessChannelDataPacket(t)
    \/ ProcessApplicationPacket(t)

\* one step of thread t
Step(t) == RegistryStep(t) \/ IoStep(t)

\* the threads run concurrently
Next == (\E t \in Threads : Step(t)) \/ Tick

Spec == Init /\ [][Next]_vars

\* every handler runs to completion before another thread starts one
Solo(t) == \A o \in Threads \ {t} : pc[o] = "idle"

SeqNext == (\E t \in Threads : Solo(t) /\ Step(t)) \/ ((\A t \in Threads : pc[t] = "idle") /\ Tick)

SeqSpec == Init /\ [][SeqNext]_vars

\* The registry with its timer running for ever (AddSession, RemoveSession,
\* binding requests and responses, the timer): a handler that has started goes
\* on to its end, the clock advances, and the timer callback is repeated.
\* Fairness is strong for the steps another thread's return can hold up for
\* a moment (NoneDone), as the scheduler does not starve a runnable thread.
LiveNext ==
    \/ \E t \in Threads : RegistryStep(t)
    \/ Tick
    \/ \E t \in TimerThreads : CheckTimedoutItem_Periodic(t)

Running(t) == pc[t] # "idle" /\ RegistryStep(t)

LiveSpec ==
    /\ Init /\ [][LiveNext]_vars
    /\ SF_vars(Tick)
    /\ \A t \in Threads : SF_vars(Running(t))
    /\ \A t \in TimerThreads : WF_vars(CheckTimedoutItem_Periodic(t))

\* ---- what a returned handler did ----
Returned(t, op) == pc[t] = "done" /\ loc[t].op = op
Notified(t, r, st) == \E i \in 1..Len(out[t]) : out[t][i].kind = "state" /\ out[t][i].sid = r
                                                /\ out[t][i].state = st
Sent(t) == \E i \in 1..Len(out[t]) : out[t][i].kind \in {"response", "request"}

\* ProcessBindingRequest has returned true: the request named a registered
\* ufrag and passed CheckIntegrity
Accepted(t) == Returned(t, "BindingRequest") /\ loc[t].ret

\* C1: a binding request accepted for a session in state New has, when
\* ProcessBindingRequest returns, moved the session to Checking, recorded the
\* request's socket and source address in the record, and left the record in
\* the address table under that address and in the session-id table; no
\* accepted request leaves its session in state New.
C1_NewToChecking ==
    \A t \in NetThreads :
        Accepted(t) =>
            LET r == loc[t].rec IN
            /\ info[r].state # "New"
            /\ Notified(t, r, "Checking") =>
                  /\ info[r].state = "Checking"
                  /\ info[r].remote = SocketOf(t)
                  /\ info[r].address = loc[t].addr
                  /\ ice_port_info[loc[t].addr] = r
                  /\ session_table[r] = r

C1_Witness ==
    \E t \in NetThreads : Accepted(t) /\ Notified(t, loc[t].rec, "Checking")
                           /\ info[loc[t].rec].remote = SocketOf(t)

\* ---- where a record is ----
InUfragTable(r) == \E u \in Ufrags : user_mapping_table[u] = r
InAddressTable(r) == \E a \in Addrs : ice_port_info[a] = r
InSessionTable(r) == session_table[r] = r
InNoTable(r) == ~InUfragTable(r) /\ ~InAddressTable(r) /\ ~InSessionTable(r)

\* C2: a record becomes Connected only from Checking, and only in the step of
\* ProcessBindingResponse that follows the lookup by address and the
\* integrity check.
C2_ConnectedOnlyFromChecking ==
    [][\A r \in Recs :
          (info[r].state # "Connected" /\ info'[r].state = "Connected") =>
              /\ info[r].state = "Checking"
              /\ \E t \in NetThreads : pc[t] = "resp_set" /\ loc[t].rec = r]_vars

\* ProcessBindingRequest has returned false after CheckIntegrity failed for
\* a registered ufrag
Rejected(t) == Returned(t, "BindingRequest") /\ ~loc[t].ret /\ loc[t].rec # NoEntry

\* C3: when a binding request that names a registered ufrag fails
\* CheckIntegrity, then at the return of ProcessBindingRequest the session is
\* Failed, the observers were told so, the record is in none of the three
\* tables, and nothing was sent to the peer.
C3_IntegrityFailureEvicts ==
    \A t \in NetThreads :
        Rejected(t) =>
            LET r == loc[t].rec IN
            /\ info[r].state = "Failed"
            /\ Notified(t, r, "Failed")
            /\ InNoTable(r)
            /\ ~Sent(t)

C3_Witness ==
    \E t \in NetThreads : Rejected(t) /\ info[loc[t].rec].remote # NullSocket
                           /\ InNoTable(loc[t].rec)

\* ProcessBindingResponse has returned false after CheckIntegrity failed for
\* the session found under the source address
BadResponse(t) == Returned(t, "BindingResponse") /\ ~loc[t].ret /\ loc[t].rec # NoEntry

\* C4: the step in which ProcessBindingResponse rejects a response that fails
\* CheckIntegrity changes no record (state, socket, address, expire deadline)
\* and no table, and calls no observer.
C4_BadResponseKeepsSession ==
    [][\A t \in NetThreads :
          (pc[t] = "idle" /\ BadResponse(t)') =>
              /\ info' = info
              /\ user_mapping_table' = user_mapping_table
              /\ ice_port_info' = ice_port_info
              /\ session_table' = session_table
              /\ out'[t] = <<>>]_vars

C4_Witness ==
    \E t \in NetThreads : BadResponse(t) /\ info[loc[t].rec].state = "Connected"
                           /\ InSessionTable(loc[t].rec) /\ InAddressTable(loc[t].rec)

\* C5: an AddSession whose local ufrag is already a key of the ufrag table is
\* refused: no step replaces the record an ufrag maps to by another record.
C5_DuplicateAddRefused ==
    [][\A u \in Ufrags :
          user_mapping_table[u] # NoEntry =>
              user_mapping_table'[u] \in {user_mapping_table[u], NoEntry}]_vars

\* C6: when RemoveSession(id) returns, no record with session id `id` is in
\* the ufrag table, the address table or the session-id table.
C6_RemovedIsAbsent ==
    \A t \in AppThreads :
        Returned(t, "RemoveSession") => InNoTable(loc[t].sid)

\* C7: the address table and the session-id table hold the same records: a
\* record in the session-id table is the value of the address-table entry
\* under its recorded address, and a record in the address table is in the
\* session-id table under its session id.
C7_SameRecords ==
    \A r \in Recs :
        /\ InSessionTable(r) =>
               info[r].address # NoAddr /\ ice_port_info[info[r].address] = r
        /\ InAddressTable(r) => InSessionTable(r)

\* the records reachable from the three tables
Reachable == {r \in Recs : ~InNoTable(r)}

\* C8: no two distinct records reachable from the tables have the same local
\* ufrag or the same recorded remote address (session ids are the record
\* identities and differ by construction).
C8_NoSharedKeys ==
    \A r1 \in Reachable : \A r2 \in Reachable \ {r1} :
        /\ info[r1].ufrag # info[r2].ufrag
        /\ info[r1].address # NoAddr => info[r1].address # info[r2].address

Quiescent == \A t \in Threads : pc[t] = "idle"

\* C9: once no handler is running, a record is in the address table and the
\* session-id table exactly if it is Checking or Connected; and no observer
\* call or send for a record happens while it is Checking and missing from
\* either table.
C9_InTablesIffChecking ==
    [][/\ Quiescent' =>
            \A r \in 1..Len(info') :
                (InAddressTable(r)' /\ InSessionTable(r)') <=>
                    info'[r].state \in {"Checking", "Connected"}
       /\ \A t \in Threads : \A i \in 1..Len(out'[t]) :
            (i > Len(out[t]) /\ info'[out'[t][i].sid].state = "Checking") =>
                /\ \E a \in Addrs : ice_port_info'[a] = out'[t][i].sid
                /\ session_table'[out'[t][i].sid] = out'[t][i].sid]_vars

\* the records whose removal thread t has begun and not finished
Removing(t) ==
    IF pc[t] \in {"rs_eraseU", "pbr_failI"} THEN {loc[t].rec}
    ELSE IF pc[t] = "ct_erase" THEN {loc[t].dl[i] : i \in 1..Len(loc[t].dl)}
    ELSE {}

\* C10 as stated: a removal never leaves a state in which the record is gone
\* from one table and still present in another.
C10_RemovalAtomic ==
    \A t \in Threads : \A r \in Removing(t) : InNoTable(r)

\* C10: a record's session-id entry and the address-table entry under its
\* recorded address are erased in the same step, and its ufrag entry is
\* erased in a different step from its session-id entry.
C10_TwoPhaseRemoval ==
    [][\A r \in Recs :
          (session_table[r] = r /\ session_table'[r] # r) =>
              /\ info[r].address # NoAddr => ice_port_info'[info[r].address] # r
              /\ \A u \in Ufrags : user_mapping_table[u] = r => user_mapping_table'[u] = r]_vars

C10_Witness ==
    \E t \in Threads : \E r \in Removing(t) :
        /\ info[r].address # NoAddr
        /\ \/ pc[t] = "rs_eraseU" /\ InUfragTable(r) /\ ~InSessionTable(r) /\ ~InAddressTable(r)
           \/ pc[t] # "rs_eraseU" /\ ~InUfragTable(r) /\ InSessionTable(r) /\ InAddressTable(r)

\* C11: OnStateChanged is delivered once per transition: every call reports a
\* state the session was not already in, also when requests or responses for
\* one session are processed on different sockets at once.
C11_NotifiedOncePerTransition ==
    [][\A t \in Threads : \A i \in 1..Len(out'[t]) :
          (i > Len(out[t]) /\ out'[t][i].kind = "state") =>
              info[out'[t][i].sid].state # out'[t][i].state]_vars

\* C12: no observer callback is invoked while the calling thread holds
\* _user_mapping_table_mutex or _ice_port_info_mutex.
C12_NoLockAtCallback ==
    \A t \in Threads : \A i \in 1..Len(out[t]) :
        out[t][i].kind \in {"state", "OnDataReceived"} => out[t][i].locks = {}

\* the next step of thread t locks _user_mapping_table_mutex
AcquiresUfragLock(t) == pc[t] \in {"rs_scan", "rs_eraseU", "pbr_failU"}

\* C13: no thread acquires the ufrag lock while it holds the active-sessions
\* lock.
C13_UfragLockFirst ==
    \A t \in Threads : AcquiresUfragLock(t) => info_mutex # t

\* C15: CheckTimedoutItem affects exactly the expired sessions: in its first
\* critical section each expired session of the ufrag table is notified
\* Disconnected and erased from that table and no other record or ufrag entry
\* changes; when it returns, every expired session is out of the address and
\* session-id tables and every other session has kept its entries there.
C15_ExactlyTheExpired ==
    [][\A t \in TimerThreads :
        /\ (pc[t] = "idle" /\ loc'[t].op = "CheckTimedoutItem") =>
              \A r \in Recs :
                 IF IsExpired(r) /\ InUfragTable(r)
                 THEN /\ info'[r].state = "Disconnected"
                      /\ \E i \in 1..Len(out'[t]) : out'[t][i] = StateEv(r, "Disconnected", out'[t][i].locks)
                      /\ \A u \in Ufrags : user_mapping_table'[u] # r
                 ELSE /\ info'[r] = info[r]
                      /\ \A u \in Ufrags : user_mapping_table[u] = r => user_mapping_table'[u] = r
        /\ (pc[t] # "done" /\ pc'[t] = "done") =>
              \A r \in Recs :
                 IF IsExpired(r)
                 THEN session_table'[r] # r /\ \A a \in Addrs : ice_port_info'[a] # r
                 ELSE /\ session_table'[r] = session_table[r]
                      /\ \A a \in Addrs : ice_port_info[a] = r => ice_port_info'[a] = r]_vars

\* the next step of thread t locks _ice_port_info_mutex
AcquiresInfoLock(t) == pc[t] \in {"sbr_send", "pbr_failI", "ct_erase", "app_lookup"}

\* a set of threads each of which waits for a mutex held by a thread of the set
Deadlock ==
    \E S \in SUBSET Threads \ {{}} :
        \A t \in S : \/ AcquiresUfragLock(t) /\ user_mutex \in S
                     \/ AcquiresInfoLock(t) /\ info_mutex \in S

\* C14: no interleaving reaches a state in which threads wait for
\* _user_mapping_table_mutex or _ice_port_info_mutex in a cycle.
C14_DeadlockFree == ~Deadlock

C14_Witness ==
    \E t \in AppThreads : \E o \in Threads \ {t} :
        info_mutex = t /\ AcquiresUfragLock(t) /\ AcquiresInfoLock(o)

\* C17: when Send returns, it has returned false and sent nothing if the
\* session id is not in the session-id table; otherwise it has called SendTo
\* once, on the record's socket with the record's address, and returned true
\* exactly if SendTo's result was not negative.
C17_SendContract ==
    \A t \in AppThreads :
        Returned(t, "Send") =>
            IF session_table[loc[t].sid] = NoEntry
            THEN ~loc[t].ret /\ out[t] = <<>>
            ELSE LET r == session_table[loc[t].sid] IN
                 /\ info[r].remote # NullSocket
                 /\ Len(out[t]) = 1
                 /\ out[t][1].kind \in {"payload", "channel_data"}
                 /\ out[t][1].socket = info[r].remote
                 /\ out[t][1].addr = info[r].address
                 /\ loc[t].ret = (loc[t].res >= 0)

C17_Witness ==
    \E t \in AppThreads :
        Returned(t, "Send") /\ session_table[loc[t].sid] # NoEntry /\ loc[t].res < 0

\* C18: what Send hands to SendTo is wrapped in a TURN channel-data header
\* exactly if the session's socket is a TCP socket.
C18_TcpSendIsWrapped ==
    \A t \in Threads : \A i \in 1..Len(out[t]) :
        out[t][i].kind \in {"payload", "channel_data"} =>
            (out[t][i].kind = "channel_data" <=> SocketType(out[t][i].socket) = "Tcp")

\* C19: ProcessChannelDataPacket is entered at most once for a received packet.
C19_DecapsulatedOnce ==
    \A t \in NetThreads : loc[t].decaps <= 1

\* C20: the step of ProcessApplicationPacket calls OnDataReceived of every
\* observer once, in registration order, with the session bound to the source
\* address, if the address is a key of the address table, and calls nothing
\* otherwise; it changes no table and no record.
C20_ForwardedToObservers ==
    [][\A t \in NetThreads :
          (pc[t] = "app_lookup" /\ pc'[t] = "done") =>
              /\ UNCHANGED <<info, user_mapping_table, ice_port_info, session_table>>
              /\ LET r == ice_port_info[loc[t].addr] IN
                 IF r = NoEntry
                 THEN out'[t] = <<>>
                 ELSE /\ Len(out'[t]) = Len(Observers)
                      /\ \A i \in 1..Len(Observers) :
                            /\ out'[t][i].kind = "OnDataReceived"
                            /\ out'[t][i].observer = Observers[i]
                            /\ out'[t][i].sid = r]_vars

C20_Witness ==
    \E t \in NetThreads :
        /\ Returned(t, "Packet") /\ loc[t].ret
        /\ ice_port_info[loc[t].addr] = loc[t].rec
        /\ Len(out[t]) = Len(Observers)

\* C16: every session that was added is, from some time on, in none of the
\* three tables, once the binding requests have stopped (the handlers the
\* model counts are used up or no longer taken) and the timer keeps running,
\* unless the process has died.
C16_EventuallyGone ==
    \A r \in 1..MaxAdds : <>[](aborted \/ (r \in Recs => InNoTable(r)))
\* Close has been called and has returned
CloseReturned == ~timer /\ \A t \in Threads : ~Returned(t, "Close")

\* C21: once Close has returned, no step of any handler calls an observer:
\* neither OnStateChanged nor OnDataReceived is started any more.
C21_NoCallbackAfterClose ==
    [][\A t \in Threads : \A i \in 1..Len(out'[t]) :
          (CloseReturned /\ i > Len(out[t]))
              => out'[t][i].kind \notin {"state", "OnDataReceived"}]_vars

\* the step in which ProcessBindingRequest returns for a local ufrag that is not
\* a key of the ufrag table
UnknownRequest(t) ==
    /\ pc[t] = "idle" /\ loc'[t].op = "BindingRequest"
    /\ loc'[t].ufrag \in Ufrags /\ user_mapping_table[loc'[t].ufrag] = NoEntry

\* the step in which ProcessBindingResponse returns for a source address that is
\* not a key of the address table
UnknownResponse(t) ==
    pc[t] = "idle" /\ loc'[t].op = "BindingResponse" /\ loc'[t].rec = NoEntry

\* C22: a binding request for an unknown local ufrag and a binding response
\* from an unknown source address are dropped in one step that returns false,
\* creates no record, changes no record and no table, calls no observer and
\* sends nothing.
C22_UnknownDropped ==
    [][\A t \in NetThreads :
          (UnknownRequest(t) \/ UnknownResponse(t)) =>
              /\ pc'[t] = "done" /\ ~loc'[t].ret
              /\ out'[t] = <<>>
              /\ info' = info
              /\ user_mapping_table' = user_mapping_table
              /\ ice_port_info' = ice_port_info
              /\ session_table' = session_table]_vars

C22_Witness ==
    \E t \in NetThreads :
        /\ Returned(t, "BindingRequest") /\ ~loc[t].ret /\ loc[t].rec = NoEntry
        /\ loc[t].ufrag \in Ufrags /\ user_mapping_table[loc[t].ufrag] = NoEntry
        /\ \E r \in Recs : InUfragTable(r) /\ InSessionTable(r)

\* C23: when AddSession returns, the record is in the ufrag table under its
\* ufrag and in neither other table, its state is New and the one observer
\* call made was the one for New; and a thread that finds a record in the
\* ufrag table never finds it in the state it had before New.
C23_VisibleAsNew ==
    /\ \A t \in AppThreads :
          Returned(t, "AddSession") =>
              LET r == loc[t].rec IN
              /\ user_mapping_table[loc[t].ufrag] = r
              /\ ~InAddressTable(r) /\ ~InSessionTable(r)
              /\ info[r].state = "New"
              /\ out[t] = <<StateEv(r, "New", {})>>
    /\ \A t \in NetThreads :
          (loc[t].op = "BindingRequest" /\ loc[t].rec # NoEntry)
              => info[loc[t].rec].state # "Closed"

\* the SendTo calls of the handler thread t runs, in order
Sends(t) == SelectSeq(out[t], LAMBDA e : e.kind \notin {"state", "OnDataReceived"})

\* C24: when ProcessBindingRequest returns true it has called SendTo exactly
\* twice, on the socket the request came in on and to the request's source
\* address: first the success response with the request's transaction id, then
\* the server's binding request; when it returns false it has sent nothing.
C24_ResponseThenRequest ==
    \A t \in NetThreads :
        Returned(t, "BindingRequest") =>
            IF loc[t].ret
            THEN Sends(t) = <<StunEv("response", loc[t].rec, SocketOf(t), loc[t].addr, loc[t].tid),
                              SendEv("request", loc[t].rec, SocketOf(t), loc[t].addr)>>
            ELSE Sends(t) = <<>>

C24_Witness ==
    \E t \in NetThreads :
        /\ Accepted(t) /\ info[loc[t].rec].state = "Connected"
        /\ Len(Sends(t)) = 2 /\ Sends(t)[1].tid = 2

\* C25: a record that is Failed or Disconnected has no further state change
\* notified: no step of a packet handler or of CheckTimedoutItem calls
\* OnStateChanged for it again.
C25_FailedIsTerminal ==
    [][\A t \in NetThreads \cup TimerThreads : \A i \in 1..Len(out'[t]) :
          (i > Len(out[t]) /\ out'[t][i].kind = "state" /\ out'[t][i].sid \in Recs)
              => info[out'[t][i].sid].state \notin {"Failed", "Disconnected"}]_vars

\* C26: every record in the session-id table has a socket, and a recorded
\* address under which the address table holds that record.
C26_SessionHasSocket ==
    \A r \in Recs :
        InSessionTable(r) =>
            /\ info[r].remote # NullSocket
            /\ info[r].address # NoAddr
            /\ ice_port_info[info[r].address] = r

\* the records a removing step of thread t is about: the session RemoveSession
\* was called for, the session whose request failed CheckIntegrity, the
\* sessions CheckTimedoutItem found expired
Targets(t) ==
    IF loc'[t].op = "RemoveSession" THEN {loc'[t].sid}
    ELSE IF loc'[t].op = "CheckTimedoutItem"
         THEN {loc[t].dl[i] : i \in 1..Len(loc[t].dl)} \cup {loc'[t].dl[i] : i \in 1..Len(loc'[t].dl)}
         ELSE {loc'[t].rec}

\* thread t takes a step of RemoveSession, of CheckTimedoutItem or of the
\* eviction after a failed integrity check
RemovalStep(t) ==
    /\ pc'[t] # pc[t] /\ pc[t] # "done"
    /\ \/ loc'[t].op \in {"RemoveSession", "CheckTimedoutItem"}
       \/ pc[t] \in {"pbr_failstate", "pbr_failU", "pbr_failI"}

\* C27: a step of RemoveSession, of an eviction or of CheckTimedoutItem leaves
\* every session it is not about as it was: its entries in the three tables
\* and its state.
C27_OnlyThatSession ==
    [][\A t \in Threads :
          RemovalStep(t) =>
              \A r \in Recs \ Targets(t) :
                  /\ \A u \in Ufrags : user_mapping_table[u] = r => user_mapping_table'[u] = r
                  /\ \A a \in Addrs : ice_port_info[a] = r => ice_port_info'[a] = r
                  /\ session_table[r] = r => session_table'[r] = r
                  /\ info'[r].state = info[r].state]_vars

====
